---- MODULE Spec2Model ----
(***************************************************************************)
(* Model of hello_world/smart.py.                                          *)
(*   Spec     the scan loop of main(): the supervision of the target       *)
(*            process (launch, observation, SIGTERM, bounded wait,         *)
(*            SIGKILL), the analysis of its output, the anomaly            *)
(*            classification and the convergence check that ends the loop  *)
(*   SpecML   perform_ml_analysis on histories of any length               *)
(*   SpecText analyze_scan_output and extract_features on any text         *)
(*   SpecCLI  the command line entry point and main() up to the scan loop  *)
(*                                                                         *)
(* Numbers that are floats in the program are fixed-point integers here,   *)
(* in units of 1e-6 (Micro), so that the tolerance 1e-6 is one unit.       *)
(***************************************************************************)
EXTENDS Integers, Sequences, FiniteSets, TLC

\* ------------------------------------------------------------------ bounds
MaxCycles == 3     \* scan cycles the model lets the loop start
MaxOut == 2        \* markers one target process writes before it is torn down
MaxHist == 11      \* longest history handed to the anomaly detector on its own
MaxWait == 8       \* seconds after which a wait without timeout is cut off
MaxRuns == 2       \* runs of one repeated marker in a text handed to the analysis

\* ------------------------------------------------------- program constants
scan_duration == 5 \* scan_duration = 5, the seconds of the observation sleep
GraceTimeout == 3  \* proc.communicate(timeout=3) after SIGTERM
PrivTimeout == 10  \* proc.communicate(timeout=10) of the demonstration
KillTimeout == 3   \* proc.communicate(timeout=3) after SIGKILL
MinSamples == 10   \* len(aggregated_features) >= 10
tolerance == 1     \* tolerance = 1e-6, in units of 1e-6

Micro == 1000 * 1000

\* ------------------------------------------------------------ output text
\* A text is the sequence of the markers the regular expressions of the
\* program find in it, in order of appearance.
\*   iter  : "Iteration <val>:"
\*   seg   : "Caught segmentation fault"
\*   alloc : "Allocating <val> bytes"
\*   addr  : "0x<hex digits>" of value val; sp tells spellings of one value apart
Tok(k, v, s) == [kind |-> k, val |-> v, sp |-> s]
TokIter == Tok("iter", 0, 0)
TokSeg == Tok("seg", 0, 0)
TokAlloc(n) == Tok("alloc", n, 0)
TokAddr(v, s) == Tok("addr", v, s)
\*   alloc with sp = 1 : "Allocating <digits> bytes" whose number is beyond the
\*           range of a float (more than 308 digits); val is not its value
\*   mapok : "(DEBUG) Successfully mapped null page"
\*   mapfail : "(DEBUG) Null page mapping attempt failed"
TokAllocHuge == Tok("alloc", 0, 1)
TokMapOk == Tok("mapok", 0, 0)
TokMapFail == Tok("mapfail", 0, 0)

\* re.findall(pattern, output): the matches of one pattern, in order
findall(kind, output) == SelectSeq(output, LAMBDA t : t.kind = kind)

RECURSIVE SumSeq(_)
SumSeq(s) == IF s = <<>> THEN 0 ELSE Head(s) + SumSeq(Tail(s))

Vals(s) == [i \in DOMAIN s |-> s[i].val]
Squares(s) == [i \in DOMAIN s |-> s[i] * s[i]]

\* floor of the square root, by bisection on lo <= r < hi
RECURSIVE Bisect(_, _, _)
Bisect(x, lo, hi) ==
  IF hi - lo <= 1 THEN lo
  ELSE LET mid == (lo + hi) \div 2
       IN IF mid * mid <= x THEN Bisect(x, mid, hi) ELSE Bisect(x, lo, mid)
ISqrt(x) == Bisect(x, 0, 46340)

\* statistics.stdev(xs): sample standard deviation (divisor n - 1), len(xs) > 1.
\* variance = (n * sum(x^2) - sum(x)^2) / (n * (n - 1)); the result is in
\* Micro units, exact to a thousandth.
stdev(xs) ==
  LET n == Len(xs)
      num == n * SumSeq(Squares(xs)) - SumSeq(xs) * SumSeq(xs)
  IN 1000 * ISqrt((num * Micro) \div (n * (n - 1)))

\* math.log2(k) in Micro units, k = 1 .. 48
Log2Micro ==
  << 0, 1000000, 1584963, 2000000, 2321928, 2584963, 2807355, 3000000,
     3169925, 3321928, 3459432, 3584963, 3700440, 3807355, 3906891, 4000000,
     4087463, 4169925, 4247928, 4321928, 4392317, 4459432, 4523562, 4584963,
     4643856, 4700440, 4754888, 4807355, 4857981, 4906891, 4954196, 5000000,
     5044394, 5087463, 5129283, 5169925, 5209453, 5247928, 5285402, 5321928,
     5357552, 5392317, 5426265, 5459432, 5491853, 5523562, 5554589, 5584963 >>

\* calculate_entropy(address_list): -sum p * log2(p) over the frequency map,
\* p = count / total, written as (count / total) * (log2(total) - log2(count))
calculate_entropy(address_list) ==
  IF address_list = <<>> THEN 0
  ELSE LET total == Len(address_list)
           keys == {address_list[i] : i \in DOMAIN address_list}
           frequency == [a \in keys |->
                           Cardinality({i \in DOMAIN address_list : address_list[i] = a})]
           terms == {<<a, frequency[a] * (Log2Micro[total] - Log2Micro[frequency[a]])>> : a \in keys}
           RECURSIVE SumTerms(_)
           SumTerms(S) == IF S = {} THEN 0
                          ELSE LET t == CHOOSE t \in S : TRUE
                               IN t[2] + SumTerms(S \ {t})
       IN SumTerms(terms) \div total

\* extract_features(output):
\*   [segfault_ratio, avg_alloc, stdev_alloc, hex_entropy, unique_hex_count]
extract_features(output) ==
  LET num_iterations == Len(findall("iter", output))
      num_segfaults == Len(findall("seg", output))
      segfault_ratio == IF num_iterations > 0
                        THEN (num_segfaults * Micro) \div num_iterations ELSE 0
      allocation_sizes == Vals(findall("alloc", output))
      avg_alloc == IF allocation_sizes # <<>>
                   THEN (SumSeq(allocation_sizes) * Micro) \div Len(allocation_sizes)
                   ELSE 0
      stdev_alloc == IF Len(allocation_sizes) > 1 THEN stdev(allocation_sizes) ELSE 0
      addresses_int == Vals(findall("addr", output))
      hex_entropy == calculate_entropy(addresses_int)
      unique_hex_count == Cardinality({addresses_int[i] : i \in DOMAIN addresses_int}) * Micro
  IN << segfault_ratio, avg_alloc, stdev_alloc, hex_entropy, unique_hex_count >>

\* lines 79 and 189: sum(allocation_sizes) / len(allocation_sizes) raises
\* OverflowError when the quotient of the two integers is beyond a float
Raises(output) == \E i \in DOMAIN output : output[i].kind = "alloc" /\ output[i].sp = 1

\* statistics.median(xs) in Micro units: the middle element, or the mean of
\* the two middle elements when len(xs) is even
median(xs) ==
  LET n == Len(xs)
      sorted == SortSeq(xs, LAMBDA a, b : a < b)
  IN IF n % 2 = 1 THEN sorted[(n + 1) \div 2] * Micro
     ELSE ((sorted[n \div 2] + sorted[n \div 2 + 1]) * Micro) \div 2

RECURSIVE MinSeq(_)
MinSeq(s) == IF Len(s) = 1 THEN s[1]
             ELSE LET m == MinSeq(Tail(s)) IN IF Head(s) < m THEN Head(s) ELSE m
RECURSIVE MaxSeq(_)
MaxSeq(s) == IF Len(s) = 1 THEN s[1]
             ELSE LET m == MaxSeq(Tail(s)) IN IF Head(s) > m THEN Head(s) ELSE m

\* interpret_address(addr); the bounds 0x7ff000000000, 0x7fffffffffff and
\* 0x100000000 are compared on the bits above the low 24
interpret_address(addr) ==
  IF addr = 0 THEN "NULL pointer"
  ELSE IF 8384512 <= addr \div 16777216 /\ addr \div 16777216 <= 8388607
       THEN "Likely a stack address"
  ELSE IF 4194304 <= addr /\ addr < 8388608
       THEN "Likely an address in the code (text) segment"
  ELSE IF 256 <= addr \div 16777216 /\ addr \div 16777216 < 8384512
       THEN "Likely a heap or global variable address"
  ELSE "Unknown memory region"

\* one statement of the insight report: its kind and the numbers it prints
St(s, v) == [stmt |-> s, val |-> v, sp |-> 0, n |-> 0, region |-> ""]
StRange(lo, hi) == [stmt |-> "alloc_range", val |-> lo, sp |-> 0, n |-> hi, region |-> ""]
\* line 135: "  <addr> appeared <count> times", addr as spelled in the text
StRepeated(a, count) ==
  [stmt |-> "repeated", val |-> a.val, sp |-> a.sp, n |-> count, region |-> ""]
\* line 155: "  <addr> -> <interpretation>", addr as spelled in the text
StInterp(a) ==
  [stmt |-> "interp", val |-> a.val, sp |-> a.sp, n |-> 0, region |-> interpret_address(a.val)]

\* the distinct elements of s in order of first appearance, which is the
\* order of the keys of a dict filled by a loop over s
RECURSIVE Distinct(_)
Distinct(s) ==
  IF s = << >> THEN << >>
  ELSE LET front == Distinct(SubSeq(s, 1, Len(s) - 1))
           last == s[Len(s)]
       IN IF \E i \in DOMAIN front : front[i] = last THEN front ELSE Append(front, last)

Count(a, s) == Cardinality({i \in DOMAIN s : s[i] = a})

\* analyze_scan_output(output): the insights, in order. hashseed stands for
\* the hash seed of the interpreter, which fixes the order in which
\* set(hex_addresses) hands spellings of one value to the stable sort of
\* line 152.
analyze_scan_output(output, hashseed) ==
  LET num_iterations == Len(findall("iter", output))
      num_segfaults == Len(findall("seg", output))
      allocation_sizes == Vals(findall("alloc", output))
      hex_addresses == findall("addr", output)
      addresses_int == Vals(hex_addresses)
      n == Len(addresses_int)
      \* lines 54-71
      sec12 ==
        << St("iterations", num_iterations), St("segfaults", num_segfaults) >> \o
        (IF num_iterations > 0
         THEN << St("successful", num_iterations - num_segfaults),
                 St("ratio", (num_segfaults * Micro) \div num_iterations) >>
         ELSE << St("no_iterations", 0) >>)
      \* lines 76-95
      sec3 ==
        IF allocation_sizes # << >>
        THEN << St("avg_alloc", (SumSeq(allocation_sizes) * Micro) \div Len(allocation_sizes)),
                StRange(MinSeq(allocation_sizes), MaxSeq(allocation_sizes)) >> \o
             (IF Len(allocation_sizes) > 1
              THEN << St("stdev_alloc", stdev(allocation_sizes)),
                      St("median_alloc", median(allocation_sizes)) >>
              ELSE << St("insufficient_alloc", 0) >>)
        ELSE << St("no_alloc", 0) >>
      \* lines 107-115: statistics.mean of integers is an int only when it is
      \* exact and statistics.median of an even number of them is a float; the
      \* format code x raises ValueError on a float, which the handler of line
      \* 114 turns into the fallback statement after what was appended so far
      meanIsInt == SumSeq(addresses_int) % n = 0
      medianIsInt == n % 2 = 1
      advanced ==
        IF ~meanIsInt THEN << St("insufficient_addr", 0) >>
        ELSE << St("avg_addr", SumSeq(addresses_int) \div n) >> \o
             (IF ~medianIsInt THEN << St("insufficient_addr", 0) >>
              ELSE << St("median_addr", median(addresses_int) \div Micro),
                      St("stdev_addr", stdev(addresses_int)) >>)
      \* lines 100-123
      sec4 ==
        IF hex_addresses # << >>
        THEN << St("total_hex", n),
                St("unique_hex", Cardinality({addresses_int[i] : i \in DOMAIN addresses_int})) >> \o
             (IF n > 1
              THEN advanced \o << St("entropy", calculate_entropy(addresses_int)) >>
              ELSE << St("not_enough_hex", 0) >>)
        ELSE << St("no_hex", 0) >>
      \* lines 128-137: the frequency map is keyed on the spelling
      keys == Distinct(hex_addresses)
      repeated_addresses == SelectSeq(keys, LAMBDA a : Count(a, hex_addresses) > 10)
      sec5 ==
        IF repeated_addresses # << >>
        THEN << St("alert_repeated", 0) >> \o
             [i \in DOMAIN repeated_addresses |->
                StRepeated(repeated_addresses[i], Count(repeated_addresses[i], hex_addresses))]
        ELSE << St("no_repetitive", 0) >>
      \* lines 142-145: num_segfaults / num_iterations > 0.3
      sec6 ==
        IF num_iterations > 0 /\ num_segfaults * 10 > 3 * num_iterations
        THEN << St("warning_high_segfault", 0) >>
        ELSE << St("segfault_ok", 0) >>
      \* lines 150-159
      unique_hex_addresses ==
        SortSeq(keys, LAMBDA a, b :
                  \/ a.val < b.val
                  \/ a.val = b.val /\ (IF hashseed = 0 THEN a.sp < b.sp ELSE a.sp > b.sp))
      sec7 ==
        IF hex_addresses # << >>
        THEN << St("interpretations", 0) >> \o
             [i \in DOMAIN unique_hex_addresses |-> StInterp(unique_hex_addresses[i])] \o
             (IF \E i \in DOMAIN hex_addresses : hex_addresses[i] = TokAddr(0, 0)
              THEN << St("null_flag", 0) >> ELSE << >>)
        ELSE << St("no_addresses", 0) >>
      \* lines 164-169
      sec8 ==
        IF findall("mapok", output) # << >> THEN << St("map_ok", 0) >>
        ELSE IF findall("mapfail", output) # << >> THEN << St("map_failed", 0) >>
        ELSE << St("map_not_detected", 0) >>
  IN sec12 \o sec3 \o sec4 \o sec5 \o sec6 \o sec7 \o sec8

\* --------------------------------------------------------------- the state
VARIABLES
  pc,                  \* the statement of main() the loop is at
  cycle,               \* cycle
  aggregated_features, \* aggregated_features, the feature history
  procs,               \* status of every target process launched, by cycle
  written,             \* what the current target has written to its pipe, which is
                       \* what communicate holds in its buffer when it times out
  streamOpen,          \* the write end of that pipe is still open
  sigs,                \* signals os.kill delivered to the current target
  elapsed,             \* seconds since the launch, then since the SIGTERM step
  deadline,            \* value of elapsed at which the current communicate times out
  stdout,              \* stdout, the raw output handed to the analysis
  forcedFailed,        \* the handler of lines 521-523 ran in this cycle
  failedBefore,        \* the handler of lines 521-523 ran in the cycle before
  feature_vector,      \* feature_vector
  ml_report,           \* ml_report
  IsolationForest,     \* "None" when the import of line 14 failed
  error,               \* the statement whose exception left main()
  interruptedAt,       \* the statement KeyboardInterrupt was raised at
  analysed,            \* number of outputs analyze_scan_output was called on
  analysis_report,     \* analysis_report
  args,                \* args, the flags of the command line
  modes,               \* the modes main() has been called with, in order
  built                \* vulnerable_scanner.c: "none", "written" or "compiled"

vars == << pc, cycle, aggregated_features, procs, written, streamOpen, sigs,
           elapsed, deadline, stdout, forcedFailed, feature_vector, ml_report,
           IsolationForest, error, interruptedAt, analysed, analysis_report,
           failedBefore, args, modes, built >>

\* what the scan loop leaves alone of the command line's state
cliVars == << args, modes, built >>

\* the markers the scanned target writes in the model of the loop
ScanTokens == {TokIter, TokSeg, TokAlloc(1)}

NoVector == << >>
NoAnalysis == << >>
\* the hash seeds that tell reports apart: the order of set(hex_addresses)
\* shows only when two spellings of one value are sorted at line 152
HashSeeds(output) ==
  IF \E i, j \in DOMAIN output :
       /\ output[i].kind = "addr" /\ output[j].kind = "addr"
       /\ output[i].val = output[j].val /\ output[i].sp # output[j].sp
  THEN {0, 1} ELSE {0}
NoReport == [verdict |-> "none", samples |-> -1]

\* statements of the try block of main(), lines 499-551
LoopPcs == {"launch", "observe", "sigterm", "communicate1", "sigkill",
            "communicate2", "analyze", "append", "ml", "converge", "delay"}

Last(s) == s[Len(s)]
SetLast(s, v) == [s EXCEPT ![Len(s)] = v]

Init ==
  /\ pc = "launch"
  /\ cycle = 0
  /\ aggregated_features = << >>
  /\ procs = << >>
  /\ written = << >>
  /\ streamOpen = FALSE
  /\ sigs = {}
  /\ elapsed = 0
  /\ deadline = 0
  /\ stdout = << >>
  /\ forcedFailed = FALSE
  /\ failedBefore = FALSE
  /\ feature_vector = NoVector
  /\ ml_report = NoReport
  /\ IsolationForest \in {"None", "sklearn"}
  /\ error = "none"
  /\ interruptedAt = "none"
  /\ analysed = 0
  /\ analysis_report = NoAnalysis
  /\ args = [exploit |-> TRUE, priv_escalate |-> FALSE]
  /\ modes = << "scan" >>
  /\ built = "compiled"

\* ------------------------------------------------- the target process (OS)
\* The target is an independent process: it writes markers while it runs and
\* may exit at any time.  A process that exited stays a zombie until it is
\* waited for, or is discarded at once when SIGCHLD is ignored ("reaped").
\* The model follows a target while the loop supervises it; a target that
\* outlives its cycle keeps the status it had then.  A write between the
\* timeout of line 516 and the kill of line 519 is taken as one before or after.
Exited == {"zombie", "reaped"}

TargetWrite ==
  /\ pc \in {"observe", "sigterm", "communicate1", "communicate2",
            "priv_wait", "priv_wait2"}
  /\ Last(procs) = "running"
  /\ streamOpen
  /\ Len(written) < MaxOut
  /\ \E t \in ScanTokens : written' = Append(written, t)
  /\ UNCHANGED << pc, cycle, aggregated_features, procs, streamOpen, sigs, elapsed,
                  deadline, stdout, forcedFailed, feature_vector, ml_report,
                  IsolationForest, error, interruptedAt, analysed >>
  /\ UNCHANGED << analysis_report, failedBefore, cliVars >>

TargetExit ==
  /\ pc \in {"observe", "sigterm", "communicate1", "sigkill", "communicate2",
            "priv_wait", "priv_kill", "priv_wait2"}
  /\ Last(procs) = "running"
  /\ \E s \in Exited : procs' = SetLast(procs, s)
  /\ UNCHANGED << pc, cycle, aggregated_features, written, streamOpen, sigs, elapsed,
                  deadline, stdout, forcedFailed, feature_vector, ml_report,
                  IsolationForest, error, interruptedAt, analysed >>
  /\ UNCHANGED << analysis_report, failedBefore, cliVars >>

\* the last holder of the write end closes it, at or after the target's exit
StreamClose ==
  /\ pc \in {"observe", "sigterm", "communicate1", "sigkill", "communicate2",
            "priv_wait", "priv_kill", "priv_wait2"}
  /\ Last(procs) \in Exited
  /\ streamOpen
  /\ streamOpen' = FALSE
  /\ UNCHANGED << pc, cycle, aggregated_features, procs, written, sigs, elapsed,
                  deadline, stdout, forcedFailed, feature_vector, ml_report,
                  IsolationForest, error, interruptedAt, analysed >>
  /\ UNCHANGED << analysis_report, failedBefore, cliVars >>

\* ------------------------------------------------------ library operations
\* os.kill(pid, sig): the outcomes the kernel can give for a child in `status`.
\* ESRCH (ProcessLookupError) needs the pid to be gone; EPERM (PermissionError)
\* is given for a live or zombie child that runs under other credentials.
os_kill(status) ==
  IF status = "reaped" THEN {"ProcessLookupError"} ELSE {"ok", "PermissionError"}

\* proc.communicate() as on line 487, without timeout
MayWait_NoTimeout(e, d) == e < MaxWait

\* proc.communicate(timeout=t) keeps waiting while the timeout has not expired
MayWait(e, d) == e < d

\* proc.communicate returns once the stream is at end-of-file and the child has
\* exited; it then holds the exit status (the child is reaped)
CanReturn == Last(procs) \in Exited /\ ~streamOpen

\* differences = [abs(x - y) for x, y in zip(a, b)]
Abs(x) == IF x < 0 THEN -x ELSE x
differences(a, b) == [i \in DOMAIN a |-> Abs(a[i] - b[i])]

\* the check with any() in place of all()
Converged_Any(h) ==
  /\ Len(h) >= 2
  /\ LET d == differences(h[Len(h)], h[Len(h) - 1])
     IN \E i \in DOMAIN d : d[i] < tolerance

\* lines 542-545: the condition under which the loop breaks
Converged(h) ==
  /\ Len(h) >= 2
  /\ LET d == differences(h[Len(h)], h[Len(h) - 1])
     IN \A i \in DOMAIN d : d[i] < tolerance

\* the threshold of line 217 one too low
perform_ml_analysis_Early(forest, fv, agg) ==
  IF forest = "None"
  THEN {[verdict |-> "Unavailable", samples |-> -1]}
  ELSE IF Len(agg) >= MinSamples - 1
       THEN {[verdict |-> v, samples |-> Len(agg)] : v \in {"Anomalous", "Normal"}}
       ELSE {[verdict |-> "InsufficientData", samples |-> Len(agg)]}

\* perform_ml_analysis(feature_vector, aggregated_features): the reports it can
\* return.  The fitted model's prediction is not modelled: both are possible,
\* as is an exception of the library, which the function turns into a report.
perform_ml_analysis(forest, fv, agg) ==
  IF forest = "None"
  THEN {[verdict |-> "Unavailable", samples |-> -1]}
  ELSE IF Len(agg) >= MinSamples
       THEN {[verdict |-> v, samples |-> Len(agg)] : v \in {"Anomalous", "Normal"}}
            \cup {[verdict |-> "Error", samples |-> -1]}
       ELSE {[verdict |-> "InsufficientData", samples |-> Len(agg)]}

\* ------------------------------------------------------------ the scan loop
\* line 501: Popen succeeds.  Rebinding proc drops the previous Popen object,
\* whose finaliser collects the child if it is a zombie.
LaunchOk ==
  /\ pc = "launch"
  /\ cycle < MaxCycles
  /\ procs' = Append([i \in DOMAIN procs |->
                        IF procs[i] = "zombie" THEN "reaped" ELSE procs[i]], "running")
  /\ written' = << >>
  /\ streamOpen' = TRUE
  /\ sigs' = {}
  /\ forcedFailed' = FALSE
  /\ pc' = "observe"
  /\ UNCHANGED << cycle, aggregated_features, elapsed, deadline, stdout, feature_vector,
                  ml_report, IsolationForest, error, interruptedAt, analysed >>
  /\ UNCHANGED << analysis_report, failedBefore, cliVars >>

\* the launch failure caught and the cycle carried on with an empty output
LaunchFails_Swallowed ==
  /\ pc = "launch"
  /\ cycle < MaxCycles
  /\ pc' = "analyze"
  /\ error' = "launch"
  /\ stdout' = << >>
  /\ UNCHANGED << cycle, aggregated_features, procs, written, streamOpen, sigs, elapsed,
                  deadline, forcedFailed, feature_vector, ml_report,
                  IsolationForest, interruptedAt, analysed >>
  /\ UNCHANGED << analysis_report, failedBefore, cliVars >>

\* line 501: Popen raises (missing executable, permission); nothing catches it
LaunchFails ==
  /\ pc = "launch"
  /\ cycle < MaxCycles
  /\ pc' = "raised"
  /\ error' = "launch"
  /\ UNCHANGED << cycle, aggregated_features, procs, written, streamOpen, sigs, elapsed,
                  deadline, stdout, forcedFailed, feature_vector, ml_report,
                  IsolationForest, interruptedAt, analysed >>
  /\ UNCHANGED << analysis_report, failedBefore, cliVars >>

\* the sleep cut short: the loop goes on before scan_duration has passed
ObserveDone_Early ==
  /\ pc = "observe"
  /\ pc' = "sigterm"
  /\ UNCHANGED << cycle, aggregated_features, procs, written, streamOpen, sigs, elapsed,
                  deadline, stdout, forcedFailed, feature_vector, ml_report,
                  IsolationForest, error, interruptedAt, analysed >>
  /\ UNCHANGED << analysis_report, failedBefore, cliVars >>

\* lines 504-505: time.sleep(scan_duration) returns, scan_duration seconds
\* after the launch; what the target does meanwhile comes before this step
ObserveDone ==
  /\ pc = "observe"
  /\ elapsed' = elapsed + scan_duration
  /\ pc' = "sigterm"
  /\ UNCHANGED << cycle, aggregated_features, procs, written, streamOpen, sigs,
                  deadline, stdout, forcedFailed, feature_vector, ml_report,
                  IsolationForest, error, interruptedAt, analysed >>
  /\ UNCHANGED << analysis_report, failedBefore, cliVars >>

\* lines 508-510: os.kill(proc.pid, SIGTERM) succeeds
SigTermSent ==
  /\ pc = "sigterm"
  /\ "ok" \in os_kill(Last(procs))
  /\ sigs' = sigs \cup {"SIGTERM"}
  /\ elapsed' = 0
  /\ deadline' = GraceTimeout
  /\ pc' = "communicate1"
  /\ UNCHANGED << cycle, aggregated_features, procs, written, streamOpen, stdout,
                  forcedFailed, feature_vector, ml_report, IsolationForest, error,
                  interruptedAt, analysed >>
  /\ UNCHANGED << analysis_report, failedBefore, cliVars >>

\* lines 511-512: ProcessLookupError is caught
SigTermLookupError ==
  /\ pc = "sigterm"
  /\ "ProcessLookupError" \in os_kill(Last(procs))
  /\ elapsed' = 0
  /\ deadline' = GraceTimeout
  /\ pc' = "communicate1"
  /\ UNCHANGED << cycle, aggregated_features, procs, written, streamOpen, sigs, stdout,
                  forcedFailed, feature_vector, ml_report, IsolationForest, error,
                  interruptedAt, analysed >>
  /\ UNCHANGED << analysis_report, failedBefore, cliVars >>

\* line 509: any other OSError of os.kill is not caught by line 511 nor by 553
SigTermPermissionError ==
  /\ pc = "sigterm"
  /\ "PermissionError" \in os_kill(Last(procs))
  /\ pc' = "raised"
  /\ error' = "sigterm"
  /\ UNCHANGED << cycle, aggregated_features, procs, written, streamOpen, sigs, elapsed,
                  deadline, stdout, forcedFailed, feature_vector, ml_report,
                  IsolationForest, interruptedAt, analysed >>
  /\ UNCHANGED << analysis_report, failedBefore, cliVars >>

\* a second passes while a communicate call waits
Tick ==
  /\ pc \in {"communicate1", "communicate2", "priv_wait", "priv_wait2"}
  /\ MayWait(elapsed, deadline)
  /\ elapsed' = elapsed + 1
  /\ UNCHANGED << pc, cycle, aggregated_features, procs, written, streamOpen, sigs,
                  deadline, stdout, forcedFailed, feature_vector, ml_report,
                  IsolationForest, error, interruptedAt, analysed >>
  /\ UNCHANGED << analysis_report, failedBefore, cliVars >>

\* line 515: communicate returns everything the target wrote
Communicate1Return ==
  /\ pc = "communicate1"
  /\ CanReturn
  /\ stdout' = written
  /\ procs' = SetLast(procs, "reaped")
  /\ pc' = "analyze"
  /\ UNCHANGED << cycle, aggregated_features, written, streamOpen, sigs, elapsed,
                  deadline, forcedFailed, feature_vector, ml_report, IsolationForest,
                  error, interruptedAt, analysed >>
  /\ UNCHANGED << analysis_report, failedBefore, cliVars >>

\* lines 516-517: TimeoutExpired
Communicate1Timeout ==
  /\ pc = "communicate1"
  /\ ~MayWait(elapsed, deadline)
  /\ pc' = "sigkill"
  /\ UNCHANGED << cycle, aggregated_features, procs, written, streamOpen, sigs, elapsed,
                  deadline, stdout, forcedFailed, feature_vector, ml_report,
                  IsolationForest, error, interruptedAt, analysed >>
  /\ UNCHANGED << analysis_report, failedBefore, cliVars >>

\* line 519: os.kill(proc.pid, SIGKILL) succeeds; a running target dies
SigKillSent ==
  /\ pc = "sigkill"
  /\ "ok" \in os_kill(Last(procs))
  /\ sigs' = sigs \cup {"SIGKILL"}
  /\ \E s \in Exited :
       procs' = IF Last(procs) = "running" THEN SetLast(procs, s) ELSE procs
  /\ deadline' = elapsed + KillTimeout
  /\ pc' = "communicate2"
  /\ UNCHANGED << cycle, aggregated_features, written, streamOpen, elapsed, stdout,
                  forcedFailed, feature_vector, ml_report, IsolationForest, error,
                  interruptedAt, analysed >>
  /\ UNCHANGED << analysis_report, failedBefore, cliVars >>

\* lines 519, 521-523: os.kill raises; except Exception sets stdout = ""
SigKillFails ==
  /\ pc = "sigkill"
  /\ os_kill(Last(procs)) \ {"ok"} # {}
  /\ stdout' = << >>
  /\ forcedFailed' = TRUE
  /\ pc' = "analyze"
  /\ UNCHANGED << cycle, aggregated_features, procs, written, streamOpen, sigs, elapsed,
                  deadline, feature_vector, ml_report, IsolationForest, error,
                  interruptedAt, analysed >>
  /\ UNCHANGED << analysis_report, failedBefore, cliVars >>

\* line 520: the second communicate returns everything the target wrote
Communicate2Return ==
  /\ pc = "communicate2"
  /\ CanReturn
  /\ stdout' = written
  /\ procs' = SetLast(procs, "reaped")
  /\ pc' = "analyze"
  /\ UNCHANGED << cycle, aggregated_features, written, streamOpen, sigs, elapsed,
                  deadline, forcedFailed, feature_vector, ml_report, IsolationForest,
                  error, interruptedAt, analysed >>
  /\ UNCHANGED << analysis_report, failedBefore, cliVars >>

\* the output read so far kept when the second communicate times out
Communicate2Timeout_KeepsOutput ==
  /\ pc = "communicate2"
  /\ ~MayWait(elapsed, deadline)
  /\ stdout' = written
  /\ forcedFailed' = TRUE
  /\ pc' = "analyze"
  /\ UNCHANGED << cycle, aggregated_features, procs, written, streamOpen, sigs, elapsed,
                  deadline, feature_vector, ml_report, IsolationForest, error,
                  interruptedAt, analysed >>
  /\ UNCHANGED << analysis_report, failedBefore, cliVars >>

\* lines 520-523: the second communicate times out; except Exception sets stdout = ""
Communicate2Timeout ==
  /\ pc = "communicate2"
  /\ ~MayWait(elapsed, deadline)
  /\ stdout' = << >>
  /\ forcedFailed' = TRUE
  /\ pc' = "analyze"
  /\ UNCHANGED << cycle, aggregated_features, procs, written, streamOpen, sigs, elapsed,
                  deadline, feature_vector, ml_report, IsolationForest, error,
                  interruptedAt, analysed >>
  /\ UNCHANGED << analysis_report, failedBefore, cliVars >>

\* lines 525-535: analyze_scan_output(stdout), extract_features(stdout).
\* The pipe of the cycle is not read again.
Analyze ==
  /\ pc = "analyze"
  /\ analysed' = analysed + 1
  /\ IF Raises(stdout)
       THEN /\ pc' = "raised"
            /\ error' = "analyze"
            /\ UNCHANGED << analysis_report, feature_vector >>
       ELSE /\ \E hashseed \in HashSeeds(stdout) :
                 analysis_report' = analyze_scan_output(stdout, hashseed)
            /\ feature_vector' = extract_features(stdout)
            /\ pc' = "append"
            /\ error' = error
  /\ written' = << >>
  /\ streamOpen' = FALSE
  /\ elapsed' = 0
  /\ deadline' = 0
  /\ UNCHANGED << cycle, aggregated_features, procs, sigs, stdout, forcedFailed,
                  ml_report, IsolationForest, interruptedAt >>
  /\ UNCHANGED << failedBefore, cliVars >>

\* the history overwritten with the newest vector instead of extended
AppendFeatures_Replace ==
  /\ pc = "append"
  /\ aggregated_features' = << feature_vector >>
  /\ analysis_report' = NoAnalysis
  /\ pc' = "ml"
  /\ UNCHANGED << cycle, procs, written, streamOpen, sigs, elapsed, deadline, stdout,
                  forcedFailed, feature_vector, ml_report, IsolationForest, error,
                  interruptedAt, analysed >>
  /\ UNCHANGED << failedBefore, cliVars >>

\* the classification called before the vector of the cycle is appended
AppendFeatures_Late ==
  /\ pc = "append"
  /\ aggregated_features' = aggregated_features
  /\ analysis_report' = NoAnalysis
  /\ pc' = "ml"
  /\ UNCHANGED << cycle, procs, written, streamOpen, sigs, elapsed, deadline, stdout,
                  forcedFailed, feature_vector, ml_report, IsolationForest, error,
                  interruptedAt, analysed >>
  /\ UNCHANGED << failedBefore, cliVars >>

\* line 537: aggregated_features.append(feature_vector); the report, printed
\* at line 531, is not read again
AppendFeatures ==
  /\ pc = "append"
  /\ aggregated_features' = Append(aggregated_features, feature_vector)
  /\ analysis_report' = NoAnalysis
  /\ pc' = "ml"
  /\ UNCHANGED << cycle, procs, written, streamOpen, sigs, elapsed, deadline, stdout,
                  forcedFailed, feature_vector, ml_report, IsolationForest, error,
                  interruptedAt, analysed >>
  /\ UNCHANGED << failedBefore, cliVars >>

\* a missing detector treated as a fatal error of the cycle
MLAnalysis_Raises ==
  /\ pc = "ml"
  /\ IF IsolationForest = "None"
       THEN /\ pc' = "raised"
            /\ error' = "ml"
            /\ ml_report' = ml_report
       ELSE /\ ml_report' \in perform_ml_analysis(IsolationForest, feature_vector,
                                                   aggregated_features)
            /\ pc' = "converge"
            /\ error' = error
  /\ UNCHANGED << cycle, aggregated_features, procs, written, streamOpen, sigs, elapsed,
                  deadline, stdout, forcedFailed, feature_vector, IsolationForest,
                  interruptedAt, analysed >>
  /\ UNCHANGED << analysis_report, failedBefore, cliVars >>

\* lines 538-540: ml_report = perform_ml_analysis(feature_vector, aggregated_features)
MLAnalysis ==
  /\ pc = "ml"
  /\ ml_report' \in perform_ml_analysis(IsolationForest, feature_vector, aggregated_features)
  /\ pc' = "converge"
  /\ UNCHANGED << cycle, aggregated_features, procs, written, streamOpen, sigs, elapsed,
                  deadline, stdout, forcedFailed, feature_vector, IsolationForest, error,
                  interruptedAt, analysed >>
  /\ UNCHANGED << analysis_report, failedBefore, cliVars >>

\* the cycle index advanced by the cycle that ends the loop
ConvergeBreak_Increments ==
  /\ pc = "converge"
  /\ Converged(aggregated_features)
  /\ cycle' = cycle + 1
  /\ pc' = "done"
  /\ UNCHANGED << aggregated_features, procs, written, streamOpen, sigs, elapsed,
                  deadline, stdout, forcedFailed, feature_vector, ml_report,
                  IsolationForest, error, interruptedAt, analysed >>
  /\ UNCHANGED << analysis_report, failedBefore, cliVars >>

\* lines 542-547: break
ConvergeBreak ==
  /\ pc = "converge"
  /\ Converged(aggregated_features)
  /\ pc' = "done"
  /\ UNCHANGED << cycle, aggregated_features, procs, written, streamOpen, sigs, elapsed,
                  deadline, stdout, forcedFailed, feature_vector, ml_report,
                  IsolationForest, error, interruptedAt, analysed >>
  /\ UNCHANGED << analysis_report, failedBefore, cliVars >>

\* lines 542-550: no break; cycle += 1.  stdout is not read again before the
\* next cycle assigns it; the cycle that ends becomes the cycle before.
ConvergeContinue ==
  /\ pc = "converge"
  /\ ~Converged(aggregated_features)
  /\ cycle' = cycle + 1
  /\ stdout' = << >>
  /\ failedBefore' = forcedFailed
  /\ forcedFailed' = FALSE
  /\ pc' = "delay"
  /\ UNCHANGED << aggregated_features, procs, written, streamOpen, sigs, elapsed,
                  deadline, feature_vector, ml_report,
                  IsolationForest, error, interruptedAt, analysed >>
  /\ UNCHANGED << analysis_report, cliVars >>

\* line 551: time.sleep(2) returns
DelayDone ==
  /\ pc = "delay"
  /\ pc' = "launch"
  /\ UNCHANGED << cycle, aggregated_features, procs, written, streamOpen, sigs, elapsed,
                  deadline, stdout, forcedFailed, feature_vector, ml_report,
                  IsolationForest, error, interruptedAt, analysed >>
  /\ UNCHANGED << analysis_report, failedBefore, cliVars >>

\* the interrupt caught inside the loop, which then starts the next cycle
KeyboardInterrupt_Continue ==
  /\ pc \in LoopPcs
  /\ interruptedAt' = pc
  /\ pc' = "launch"
  /\ UNCHANGED << cycle, aggregated_features, procs, written, streamOpen, sigs, elapsed,
                  deadline, stdout, forcedFailed, feature_vector, ml_report,
                  IsolationForest, error, analysed >>
  /\ UNCHANGED << analysis_report, failedBefore, cliVars >>

\* lines 553-554: KeyboardInterrupt raised at any statement of the try block is
\* caught, a message is printed and main() returns.  Raised inside communicate,
\* Popen first collects the child if it has exited.
KeyboardInterrupt ==
  /\ pc \in LoopPcs
  /\ interruptedAt' = pc
  /\ pc' = "interrupted"
  /\ procs' = IF pc \in {"communicate1", "communicate2"} /\ Last(procs) = "zombie"
              THEN SetLast(procs, "reaped") ELSE procs
  /\ UNCHANGED << cycle, aggregated_features, written, streamOpen, sigs, elapsed,
                  deadline, stdout, forcedFailed, feature_vector, ml_report,
                  IsolationForest, error, analysed >>
  /\ UNCHANGED << analysis_report, failedBefore, cliVars >>

Next ==
  \/ TargetWrite \/ TargetExit \/ StreamClose
  \/ LaunchOk \/ LaunchFails \/ ObserveDone
  \/ SigTermSent \/ SigTermLookupError \/ SigTermPermissionError
  \/ Tick \/ Communicate1Return \/ Communicate1Timeout
  \/ SigKillSent \/ SigKillFails \/ Communicate2Return \/ Communicate2Timeout
  \/ Analyze \/ AppendFeatures \/ MLAnalysis
  \/ ConvergeBreak \/ ConvergeContinue \/ DelayDone
  \/ KeyboardInterrupt

Spec == Init /\ [][Next]_vars

\* ------------------------------------------- the anomaly detector on its own
\* perform_ml_analysis is applied to histories of every length up to MaxHist,
\* over two feature vectors, in both states of the import of line 14.
MLVectors == {extract_features(<< >>), extract_features(<< TokIter, TokSeg >>)}
MLHistories == UNION {[1..n -> MLVectors] : n \in 1..MaxHist}

InitML ==
  /\ pc = "ml"
  /\ aggregated_features \in MLHistories
  /\ feature_vector = Last(aggregated_features)
  /\ cycle = Len(aggregated_features) - 1
  /\ analysed = Len(aggregated_features)
  /\ procs = [i \in 1..Len(aggregated_features) |-> "reaped"]
  /\ written = << >>
  /\ streamOpen = FALSE
  /\ sigs = {"SIGTERM"}
  /\ elapsed = 0
  /\ deadline = 0
  /\ stdout = << >>
  /\ forcedFailed = FALSE
  /\ failedBefore = FALSE
  /\ ml_report = NoReport
  /\ IsolationForest \in {"None", "sklearn"}
  /\ error = "none"
  /\ interruptedAt = "none"
  /\ analysis_report = NoAnalysis
  /\ args = [exploit |-> TRUE, priv_escalate |-> FALSE]
  /\ modes = << "scan" >>
  /\ built = "compiled"

NextML == MLAnalysis

SpecML == InitML /\ [][NextML]_vars

\* ------------------------------------------------ the command line entry
\* __main__ (lines 556-567) and main() up to the scan loop (lines 459-489).
\* The scan loop itself is Spec: main() enters it at pc = "launch".
loopVars == << cycle, aggregated_features, forcedFailed, failedBefore, feature_vector,
              ml_report, IsolationForest, interruptedAt, analysed, analysis_report >>
pipeVars == << written, streamOpen, sigs, elapsed, deadline, stdout >>
CliPcs == {"cli", "write_c", "compile", "priv_launch", "priv_wait", "priv_kill",
           "priv_wait2", "priv_print"}

InitCLI ==
  /\ pc = "cli"
  /\ args \in [exploit : BOOLEAN, priv_escalate : BOOLEAN]
  /\ modes = << >>
  /\ built = "none"
  /\ cycle = 0
  /\ aggregated_features = << >>
  /\ procs = << >>
  /\ written = << >>
  /\ streamOpen = FALSE
  /\ sigs = {}
  /\ elapsed = 0
  /\ deadline = 0
  /\ stdout = << >>
  /\ forcedFailed = FALSE
  /\ failedBefore = FALSE
  /\ feature_vector = NoVector
  /\ ml_report = NoReport
  /\ IsolationForest \in {"None", "sklearn"}
  /\ error = "none"
  /\ interruptedAt = "none"
  /\ analysed = 0
  /\ analysis_report = NoAnalysis

\* lines 562-567: if args.priv_escalate ... elif args.exploit ... else print
Dispatch ==
  /\ pc = "cli"
  /\ IF args.priv_escalate
       THEN modes' = Append(modes, "priv_escalate") /\ pc' = "write_c"
       ELSE IF args.exploit
            THEN modes' = Append(modes, "scan") /\ pc' = "write_c"
            ELSE modes' = modes /\ pc' = "usage"
  /\ UNCHANGED << args, built, procs, error, loopVars, pipeVars >>

\* lines 459-461: the C source is written
WriteC ==
  /\ pc = "write_c"
  /\ built' = "written"
  /\ pc' = "compile"
  /\ UNCHANGED << args, modes, procs, error, loopVars, pipeVars >>

\* line 460: open() raises (directory not writable); nothing catches it
WriteCFails ==
  /\ pc = "write_c"
  /\ pc' = "raised"
  /\ error' = "write"
  /\ UNCHANGED << args, modes, built, procs, loopVars, pipeVars >>

\* lines 464-474, 479, 494-496: gcc succeeds and main() goes on with its mode
CompileOk ==
  /\ pc = "compile"
  /\ built' = "compiled"
  /\ pc' = IF Last(modes) = "priv_escalate" THEN "priv_launch" ELSE "launch"
  /\ UNCHANGED << args, modes, procs, error, loopVars, pipeVars >>

\* lines 467-472: gcc fails and exit(1) is called, or gcc cannot be run and
\* subprocess.run raises
CompileFails ==
  /\ pc = "compile"
  /\ pc' \in {"exited", "raised"}
  /\ error' = "compile"
  /\ UNCHANGED << args, modes, built, procs, loopVars, pipeVars >>

\* lines 482-483: Popen(["./vulnerable_scanner", "--priv-escalate"])
PrivLaunchOk ==
  /\ pc = "priv_launch"
  /\ procs' = Append(procs, "running")
  /\ written' = << >>
  /\ streamOpen' = TRUE
  /\ elapsed' = 0
  /\ deadline' = PrivTimeout
  /\ pc' = "priv_wait"
  /\ UNCHANGED << args, modes, built, error, loopVars, sigs, stdout >>

\* line 482: Popen raises; the handler of line 485 does not catch it
PrivLaunchFails ==
  /\ pc = "priv_launch"
  /\ pc' = "raised"
  /\ error' = "launch"
  /\ UNCHANGED << args, modes, built, procs, loopVars, pipeVars >>

\* line 484: communicate(timeout=10) returns everything the target wrote
PrivReturn ==
  /\ pc = "priv_wait"
  /\ CanReturn
  /\ stdout' = written
  /\ procs' = SetLast(procs, "reaped")
  /\ pc' = "priv_print"
  /\ UNCHANGED << args, modes, built, error, loopVars, written, streamOpen, sigs,
                  elapsed, deadline >>

\* line 485: TimeoutExpired
PrivTimeoutExpired ==
  /\ pc = "priv_wait"
  /\ ~MayWait(elapsed, deadline)
  /\ pc' = "priv_kill"
  /\ UNCHANGED << args, modes, built, procs, error, loopVars, pipeVars >>

\* lines 486-487: proc.kill() polls the child and sends SIGKILL if it has not
\* exited; communicate() then waits with no timeout
PrivKill ==
  /\ pc = "priv_kill"
  /\ IF Last(procs) = "running"
       THEN /\ "ok" \in os_kill(Last(procs))
            /\ sigs' = sigs \cup {"SIGKILL"}
            /\ \E s \in Exited : procs' = SetLast(procs, s)
       ELSE /\ sigs' = sigs
            /\ procs' = SetLast(procs, "reaped")
  /\ elapsed' = 0
  /\ deadline' = MaxWait
  /\ pc' = "priv_wait2"
  /\ UNCHANGED << args, modes, built, error, loopVars, written, streamOpen, stdout >>

\* line 486: os.kill raises PermissionError inside the handler
PrivKillFails ==
  /\ pc = "priv_kill"
  /\ Last(procs) = "running"
  /\ "PermissionError" \in os_kill(Last(procs))
  /\ pc' = "raised"
  /\ error' = "kill"
  /\ UNCHANGED << args, modes, built, procs, loopVars, pipeVars >>

\* line 487: communicate() returns
PrivReturn2 ==
  /\ pc = "priv_wait2"
  /\ CanReturn
  /\ stdout' = written
  /\ procs' = SetLast(procs, "reaped")
  /\ pc' = "priv_print"
  /\ UNCHANGED << args, modes, built, error, loopVars, written, streamOpen, sigs,
                  elapsed, deadline >>

\* main() run again in scan mode after the demonstration returned
MainReturns_FallsThrough ==
  /\ pc = "priv_print"
  /\ IF args.exploit
       THEN modes' = Append(modes, "scan") /\ pc' = "write_c"
       ELSE modes' = modes /\ pc' = "exit0"
  /\ UNCHANGED << args, built, procs, error, loopVars, pipeVars >>

\* lines 488-489, 562-565: print(stdout); return; the elif is not looked at
MainReturns ==
  /\ pc = "priv_print"
  /\ modes' = modes
  /\ pc' = "exit0"
  /\ UNCHANGED << args, built, procs, error, loopVars, pipeVars >>

\* Ctrl-C outside the try of line 498: KeyboardInterrupt leaves main()
KeyboardInterruptCLI ==
  /\ pc \in CliPcs
  /\ pc' = "raised"
  /\ error' = "KeyboardInterrupt"
  /\ procs' = IF pc \in {"priv_wait", "priv_wait2"} /\ Last(procs) = "zombie"
              THEN SetLast(procs, "reaped") ELSE procs
  /\ UNCHANGED << args, modes, built, loopVars, pipeVars >>

NextCLI ==
  \/ Dispatch \/ WriteC \/ WriteCFails \/ CompileOk \/ CompileFails
  \/ PrivLaunchOk \/ PrivLaunchFails \/ PrivReturn \/ PrivTimeoutExpired
  \/ PrivKill \/ PrivKillFails \/ PrivReturn2 \/ MainReturns
  \/ KeyboardInterruptCLI
  \/ TargetWrite \/ TargetExit \/ StreamClose \/ Tick

SpecCLI == InitCLI /\ [][NextCLI]_vars

\* ---------------------------------------------- the analysis on its own
\* analyze_scan_output and extract_features (lines 530 and 534) applied to
\* any text: up to MaxRuns runs of one marker repeated 1, 2, 3, 10 or 11 times.
TextTokens == {TokIter, TokSeg, TokAlloc(1), TokAlloc(3), TokAllocHuge,
               TokAddr(0, 0), TokAddr(0, 1), TokAddr(1, 0), TokMapOk, TokMapFail}
Reps == {1, 2, 3, 10, 11}
TextRuns(maxruns) == UNION {[1..k -> TextTokens \X Reps] : k \in 0..maxruns}

RECURSIVE Expand(_)
Expand(runs) ==
  IF runs = << >> THEN << >>
  ELSE [i \in 1..Head(runs)[2] |-> Head(runs)[1]] \o Expand(Tail(runs))

Texts(maxruns) == {Expand(runs) : runs \in TextRuns(maxruns)}

InitText ==
  /\ pc = "analyze"
  /\ stdout \in Texts(MaxRuns)
  /\ IsolationForest = "None"
  /\ cycle = 0
  /\ aggregated_features = << >>
  /\ procs = << "reaped" >>
  /\ written = << >>
  /\ streamOpen = FALSE
  /\ sigs = {}
  /\ elapsed = 0
  /\ deadline = 0
  /\ forcedFailed = FALSE
  /\ failedBefore = FALSE
  /\ feature_vector = NoVector
  /\ ml_report = NoReport
  /\ error = "none"
  /\ interruptedAt = "none"
  /\ analysed = 0
  /\ analysis_report = NoAnalysis
  /\ args = [exploit |-> TRUE, priv_escalate |-> FALSE]
  /\ modes = << "scan" >>
  /\ built = "compiled"

NextText == Analyze

SpecText == InitText /\ [][NextText]_vars

\* ------------------------------------------------------------------ claims
Running == {i \in DOMAIN procs : procs[i] = "running"}
AfterTeardown == {"analyze", "append", "ml", "converge", "delay", "done"}
IsPrefix(a, b) == Len(a) <= Len(b) /\ \A i \in DOMAIN a : a[i] = b[i]

\* C1: the target launched in a cycle has exited and been reaped when the
\* cycle's teardown ends, on every teardown path, and at most one target
\* process is alive at any time.
C1_ReapedBeforeAnalysis ==
  /\ pc \in AfterTeardown => Last(procs) = "reaped"
  /\ Cardinality(Running) <= 1

\* C2: an interrupt that arrives after a target was launched still has the
\* teardown applied to it: no target is running when the loop has exited.
C2_NoLeakOnInterrupt ==
  pc = "interrupted" => Running = {}

\* C3: every wait of the teardown is bounded: from the SIGTERM step to the
\* analysis of the raw output at most GraceTimeout + KillTimeout seconds pass,
\* also when the target ignores SIGTERM and its stream is never closed.
C3_BoundedTeardown ==
  /\ pc \in {"communicate1", "sigkill", "communicate2", "analyze"}
       => elapsed <= GraceTimeout + KillTimeout
  /\ pc \in {"communicate1", "sigkill"} => elapsed <= GraceTimeout

C3_Witness ==
  /\ pc = "analyze"
  /\ elapsed = GraceTimeout + KillTimeout
  /\ "SIGKILL" \in sigs
  /\ streamOpen

\* C4: when the forced termination fails too, the raw output of the cycle is
\* the output captured up to that point.
C4_PartialOutputKept ==
  (pc = "analyze" /\ forcedFailed) => stdout = written

\* C5: no failure of a termination step leaves the cycle: the only exception
\* that leaves main() is a launch failure.
C5_TerminationErrorsAbsorbed ==
  pc = "raised" => error = "launch"

\* C6: a launch failure leaves the loop at once: the cycle launched no
\* process, analysed nothing and appended nothing, and the loop is over.
C6_LaunchFailureFatal ==
  error = "launch" =>
    /\ pc = "raised"
    /\ Len(procs) = cycle
    /\ analysed = cycle
    /\ Len(aggregated_features) = cycle
    /\ interruptedAt = "none"

C6_Witness ==
  error = "launch" /\ pc = "raised" /\ cycle >= 1

\* C7: the loop stops after a cycle, launching no further process and without
\* the delay, exactly when the history has at least 2 vectors and each of the
\* 5 differences of the two most recent ones is below the tolerance; it goes
\* on exactly when that is not so, hence never stops after the first cycle.
C7_Condition ==
  /\ Len(aggregated_features) >= 2
  /\ \A i \in 1..5 :
       Abs(Last(aggregated_features)[i]
           - aggregated_features[Len(aggregated_features) - 1][i]) < tolerance

C7_StopsIffConverged ==
  /\ pc = "done" =>
       /\ C7_Condition
       /\ cycle = Len(aggregated_features) - 1
       /\ Len(procs) = Len(aggregated_features)
  /\ pc \in LoopPcs \ {"ml", "converge"} => ~C7_Condition

C7_Witness ==
  pc = "done" /\ Len(aggregated_features) = 3

\* C8: after an interrupt the loop is over: no cycle is started, no output is
\* analysed, the history and the cycle index stay, and no error leaves main().
C8_InterruptStopsCleanly ==
  /\ [](interruptedAt # "none" => pc = "interrupted" /\ error = "none")
  /\ [][interruptedAt # "none" =>
          /\ Len(procs') = Len(procs)
          /\ analysed' = analysed
          /\ aggregated_features' = aggregated_features
          /\ cycle' = cycle]_vars

C8_Witness ==
  pc = "interrupted" /\ interruptedAt = "communicate1" /\ cycle = 1

\* C9 as stated: a cycle cut short by an interrupt or a launch failure has
\* appended no vector, so the history is as long as the cycles completed.
C9_CutShortAppendsNone ==
  pc \in {"interrupted", "raised"} => Len(aggregated_features) = cycle

\* C9 as amended: the history only grows at its end, by one vector per
\* completed cycle; a cycle ended by a launch failure, or by an interrupt raised
\* before line 537, has appended none, and one interrupted after line 537 has
\* appended its vector.
C9_AppendOnly ==
  /\ [][/\ IsPrefix(aggregated_features, aggregated_features')
        /\ Len(aggregated_features') <= Len(aggregated_features) + 1]_vars
  /\ [](pc \in LoopPcs \ {"ml", "converge"} => Len(aggregated_features) = cycle)
  /\ [](pc \in {"ml", "converge", "done"} => Len(aggregated_features) = cycle + 1)
  /\ [](pc = "raised" => Len(aggregated_features) = cycle)
  /\ [](pc = "interrupted" =>
          Len(aggregated_features) =
            cycle + (IF interruptedAt \in {"ml", "converge"} THEN 1 ELSE 0))

C9_Witness ==
  pc = "interrupted" /\ interruptedAt = "ml" /\ Len(aggregated_features) = 2

\* C10 as stated: for every history of length 1 to 9 the detector returns
\* InsufficientData with the history length, whatever the runtime environment.
C10_AlwaysInsufficient ==
  (pc = "converge" /\ Len(aggregated_features) \in 1..9) =>
    /\ ml_report.verdict = "InsufficientData"
    /\ ml_report.samples = Len(aggregated_features)

\* C10 as amended: when the detection capability is available, the detector
\* returns InsufficientData with the history length for every history of
\* length 1 to 9; when it is not, it returns Unavailable; it returns Anomalous
\* or Normal only for histories of length 10 or more.
C10_InsufficientWhenAvailable ==
  pc = "converge" =>
    /\ (IsolationForest # "None" /\ Len(aggregated_features) \in 1..9) =>
         /\ ml_report.verdict = "InsufficientData"
         /\ ml_report.samples = Len(aggregated_features)
    /\ IsolationForest = "None" => ml_report.verdict = "Unavailable"
    /\ ml_report.verdict \in {"Anomalous", "Normal"} =>
         /\ Len(aggregated_features) >= 10
         /\ IsolationForest # "None"

C10_Witness ==
  /\ pc = "converge"
  /\ Len(aggregated_features) = 9
  /\ IsolationForest # "None"
  /\ ml_report.verdict = "InsufficientData"

\* C11: without the anomaly detector (IsolationForest is None) classification
\* returns the Unavailable verdict and raises nothing, and the cycle goes on
\* as with the detector: when the convergence check is reached the cycle's
\* output has been analysed and its vector appended, and the check stops the
\* loop exactly on the convergence condition, otherwise starts the next cycle.
C11_UnavailableIsNotFatal ==
  [][IsolationForest = "None" =>
       /\ (pc = "ml" /\ pc' # "interrupted" =>
              /\ pc' = "converge"
              /\ ml_report'.verdict = "Unavailable"
              /\ error' = "none")
       /\ (pc' = "converge" =>
              /\ analysed' = cycle' + 1
              /\ Len(aggregated_features') = cycle' + 1
              /\ Last(aggregated_features') = feature_vector')
       /\ (pc = "converge" /\ pc' = "done" => C7_Condition)
       /\ (pc = "converge" /\ pc' = "delay" => ~C7_Condition /\ cycle' = cycle + 1)
       /\ error' # "ml"]_vars

C11_Witness ==
  /\ IsolationForest = "None"
  /\ pc = "done"
  /\ ml_report.verdict = "Unavailable"
  /\ Len(aggregated_features) = 3

\* ------------------------------------------------ claims on the analysis
Has(stmt) == \E i \in DOMAIN analysis_report : analysis_report[i].stmt = stmt
HowMany(stmt) == Cardinality({i \in DOMAIN analysis_report : analysis_report[i].stmt = stmt})
Reported == analysis_report # NoAnalysis
NumOf(kind) == Len(findall(kind, stdout))
AddressValues == {stdout[i].val : i \in {j \in DOMAIN stdout : stdout[j].kind = "addr"}}
Occurrences(v) == Cardinality({i \in DOMAIN stdout : stdout[i].kind = "addr" /\ stdout[i].val = v})

\* C12: for every text extract_features returns a vector of 5 elements whose
\* first element, the recovery ratio, lies between 0 and 1.
C12_RatioInUnitInterval ==
  pc = "append" =>
    /\ Len(feature_vector) = 5
    /\ 0 <= feature_vector[1] /\ feature_vector[1] <= Micro

\* C13: every feature whose source sequence is empty is exactly 0, the
\* standard deviation of a single allocation is 0, and no such text raises.
C13_EmptySourcesGiveZero ==
  /\ (NumOf("iter") = 0 \/ NumOf("alloc") <= 1 \/ NumOf("addr") = 0) => error # "analyze"
  /\ pc = "append" =>
       /\ NumOf("iter") = 0 => feature_vector[1] = 0
       /\ NumOf("alloc") = 0 => feature_vector[2] = 0 /\ feature_vector[3] = 0
       /\ NumOf("alloc") = 1 => feature_vector[3] = 0
       /\ NumOf("addr") = 0 => feature_vector[4] = 0 /\ feature_vector[5] = 0

\* C14: the report lists an address as highly repetitive if and only if its
\* value occurs more than 10 times among the address tokens, and it has the
\* 'no highly repetitive patterns' statement exactly when no value does.
C14_RepeatedIffMoreThanTen ==
  Reported =>
    /\ \A v \in AddressValues :
         Occurrences(v) > 10 <=>
           \E i \in DOMAIN analysis_report :
              analysis_report[i].stmt = "repeated" /\ analysis_report[i].val = v
    /\ Has("no_repetitive") <=> \A v \in AddressValues : Occurrences(v) <= 10

\* C15: the report raises the null pointer flag if and only if some address
\* token parses to zero, which is exactly when the classification of the
\* addresses has a 'NULL pointer' entry.
C15_NullFlagIffZeroValue ==
  Reported =>
    /\ Has("null_flag") <=> 0 \in AddressValues
    /\ Has("null_flag") <=>
         \E i \in DOMAIN analysis_report :
            analysis_report[i].stmt = "interp" /\ analysis_report[i].region = "NULL pointer"

\* C16: with at least 2 address tokens the report has the mean, the median
\* and the standard deviation of the address values and their entropy; the
\* fallback statements for addresses appear only with fewer than 2 tokens.
C16_AddressStatisticsFromTwo ==
  Reported =>
    /\ NumOf("addr") >= 2 =>
         Has("avg_addr") /\ Has("median_addr") /\ Has("stdev_addr") /\ Has("entropy")
    /\ (Has("insufficient_addr") \/ Has("not_enough_hex") \/ Has("no_hex")) =>
         NumOf("addr") < 2

\* C17: analyze_scan_output returns for every text, and its report has at
\* least one statement of each of its eight sections.
C17_TotalAndComplete ==
  /\ error # "analyze"
  /\ pc = "append" =>
       /\ Has("iterations")
       /\ Has("segfaults") /\ (Has("ratio") \/ Has("no_iterations"))
       /\ Has("avg_alloc") \/ Has("no_alloc")
       /\ Has("total_hex") \/ Has("no_hex")
       /\ Has("alert_repeated") \/ Has("no_repetitive")
       /\ Has("warning_high_segfault") \/ Has("segfault_ok")
       /\ Has("interpretations") \/ Has("no_addresses")
       /\ Has("map_ok") \/ Has("map_failed") \/ Has("map_not_detected")

\* C18: for every text the report has exactly one of the three statements on
\* the mapping of the null page: the successful one iff the success phrase
\* occurs, the failed one iff the failure phrase occurs without the success
\* phrase, the not detected one iff neither occurs.
C18_OneMappingStatement ==
  /\ error # "analyze"
  /\ pc = "append" =>
       /\ HowMany("map_ok") + HowMany("map_failed") + HowMany("map_not_detected") = 1
       /\ Has("map_ok") <=> NumOf("mapok") > 0
       /\ Has("map_failed") <=> NumOf("mapfail") > 0 /\ NumOf("mapok") = 0
       /\ Has("map_not_detected") <=> NumOf("mapok") = 0 /\ NumOf("mapfail") = 0

C20_Step ==
  /\ (pc # "observe" /\ pc' = "observe") =>
      pc = "launch" /\ sigs' = {} /\ elapsed' = 0 /\ Last(procs') = "running"
  /\ (pc # "sigterm" /\ pc' = "sigterm") =>
      pc = "observe" /\ elapsed' = scan_duration
  /\ ("SIGTERM" \notin sigs /\ "SIGTERM" \in sigs') =>
      pc = "sigterm" /\ elapsed = scan_duration /\ sigs = {}
  /\ (pc # "communicate1" /\ pc' = "communicate1") =>
      pc = "sigterm" /\ elapsed' = 0 /\ deadline' = GraceTimeout
  /\ (pc # "sigkill" /\ pc' = "sigkill") =>
      pc = "communicate1" /\ elapsed = GraceTimeout /\ "SIGKILL" \notin sigs
  /\ ("SIGKILL" \notin sigs /\ "SIGKILL" \in sigs') =>
      pc = "sigkill" /\ pc' = "communicate2"
  /\ (pc = "sigkill" /\ pc' # "sigkill") =>
      pc' \in {"communicate2", "analyze", "interrupted"}
  /\ (pc = "communicate2" /\ pc' # "communicate2") =>
      pc' \in {"analyze", "interrupted"}
  /\ (pc = "communicate1" /\ pc' = "analyze") =>
      elapsed <= GraceTimeout /\ "SIGKILL" \notin sigs'
  /\ (pc \in AfterTeardown /\ "SIGKILL" \notin sigs /\ pc' # "launch") =>
      "SIGKILL" \notin sigs'

C19_AtMostOneMode ==
  /\ Len(modes) <= 1
  /\ modes # << >> =>
       modes[1] = (IF args.priv_escalate THEN "priv_escalate" ELSE "scan")
  /\ "scan" \in {modes[i] : i \in DOMAIN modes} => args.exploit
  /\ procs # << >> => modes = << "priv_escalate" >>
  /\ pc = "launch" => Init
  /\ (~args.exploit /\ ~args.priv_escalate) =>
       /\ pc \in {"cli", "usage", "raised"}
       /\ modes = << >> /\ built = "none" /\ procs = << >>

C19_Witness ==
  /\ args.exploit /\ args.priv_escalate
  /\ pc = "exit0"
  /\ modes = << "priv_escalate" >>
  /\ built = "compiled"
  /\ procs = << "reaped" >>

\* C21: at every call of the anomaly detector made by the scan loop the
\* history is not empty, its last element is the feature vector of the
\* current cycle and its length is the number of cycles so far, the current
\* one included.
C21_HistoryAtClassification ==
  pc = "ml" =>
    /\ aggregated_features # << >>
    /\ Last(aggregated_features) = feature_vector
    /\ Len(aggregated_features) = cycle + 1
    /\ feature_vector = extract_features(stdout)

C21_Witness ==
  /\ pc = "ml"
  /\ cycle = 2
  /\ Len(aggregated_features) = 3
  /\ feature_vector # aggregated_features[2]

InterpEntries == SelectSeq(analysis_report, LAMBDA r : r.stmt = "interp")

\* C22: the interpretation section of the report has exactly one entry for
\* each distinct address value, as many entries as the unique address count
\* of the feature vector, in strictly ascending order of value, whatever the
\* spelling of the tokens.
C22_OneEntryPerValue ==
  (Reported /\ pc = "append") =>
    /\ \A v \in AddressValues :
         Cardinality({i \in DOMAIN InterpEntries : InterpEntries[i].val = v}) = 1
    /\ Len(InterpEntries) = Cardinality(AddressValues)
    /\ Len(InterpEntries) * Micro = feature_vector[5]
    /\ \A i, j \in DOMAIN InterpEntries :
         i < j => InterpEntries[i].val < InterpEntries[j].val

\* C23: the scan loop stops by convergence after finitely many cycles in
\* every run without interrupt and without failure, whatever the target
\* does, so the history stays bounded: the loop has stopped before a cycle of
\* index MaxCycles is due and the history never has more than MaxCycles
\* vectors.
C23_StopsWithinBound ==
  (error = "none" /\ interruptedAt = "none") =>
    /\ cycle < MaxCycles
    /\ Len(aggregated_features) <= MaxCycles
    /\ (Len(aggregated_features) = MaxCycles /\ pc \notin {"ml", "converge"}) => pc = "done"

\* C24: on every text the report and the feature vector agree: the warning on
\* the frequency of segmentation faults is in the report if and only if the
\* first feature is strictly greater than 0.3, and otherwise the 'within
\* expected limits' statement is there instead.
C24_WarningAgreesWithFeature ==
  /\ error # "analyze"
  /\ pc = "append" =>
       /\ Has("warning_high_segfault") <=> feature_vector[1] > (3 * Micro) \div 10
       /\ Has("segfault_ok") <=> feature_vector[1] <= (3 * Micro) \div 10
       /\ HowMany("warning_high_segfault") + HowMany("segfault_ok") = 1

\* C25: at the start of every scan cycle, and until the vector of the cycle
\* is appended, the cycle index is the length of the history and the number
\* of targets launched before, so the indices are 0, 1, 2, ... with no gap
\* and no repeat; the cycle that ends the loop by convergence does not
\* advance the index.
C25_CycleIndexIsHistoryLength ==
  /\ pc \in {"launch", "delay"} =>
       cycle = Len(aggregated_features) /\ cycle = Len(procs)
  /\ pc \in {"observe", "sigterm", "communicate1", "sigkill", "communicate2",
             "analyze", "append"} =>
       cycle = Len(aggregated_features) /\ cycle = Len(procs) - 1
  /\ pc \in {"ml", "converge", "done"} =>
       cycle = Len(aggregated_features) - 1 /\ cycle = Len(procs) - 1

C25_Witness ==
  /\ pc = "launch"
  /\ cycle = 2
  /\ Len(aggregated_features) = 2
  /\ aggregated_features[1] # aggregated_features[2]

ZeroVector == extract_features(<< >>)

\* C26: when the forced termination fails in two consecutive cycles, each of
\* the two is analysed on the empty output and gives the all-zero feature
\* vector, whatever the target wrote, and the convergence check of the
\* second ends the loop: no further cycle is started.
C26_TwoFailedCyclesConverge ==
  /\ (forcedFailed /\ pc = "analyze") => stdout = << >>
  /\ (forcedFailed /\ pc \in {"append", "ml", "converge", "done"}) =>
       feature_vector = ZeroVector
  /\ (forcedFailed /\ pc \in {"ml", "converge", "done"}) =>
       Last(aggregated_features) = ZeroVector
  /\ (failedBefore /\ pc \in LoopPcs \cup {"done"}) =>
       /\ Len(aggregated_features) >= cycle
       /\ aggregated_features[cycle] = ZeroVector
  /\ (forcedFailed /\ failedBefore /\ pc \in {"ml", "converge", "done"}) =>
       Converged(aggregated_features)
  /\ (forcedFailed /\ failedBefore) =>
       pc \in {"analyze", "append", "ml", "converge", "done", "interrupted"}

C26_Witness ==
  /\ pc = "done"
  /\ forcedFailed /\ failedBefore
  /\ Len(aggregated_features) = 3
  /\ aggregated_features[1] # ZeroVector

====
